---- MODULE Spec2Model ----
(***************************************************************************)
(* Baseband core of the PortaPack firmware (firmware/baseband/main.cpp):   *)
(* the dispatcher thread (main), the baseband thread (baseband_fn), the    *)
(* RSSI thread (rssi_fn), the application core that feeds baseband_queue   *)
(* and drains application_queue, and the DMA hardware that wakes the two   *)
(* worker threads.  Threads are scheduled by static priority on one core,  *)
(* so a thread steps only while every thread of higher priority is blocked.*)
(***************************************************************************)
EXTENDS Integers, Sequences, FiniteSets, TLC

\* ------------------------------------------------------------------ bounds
MaxQueue == 2        \* messages baseband_queue can hold
MaxMessages == 2     \* messages the application sends in one run
MaxSymbols == 2      \* symbols clock recovery yields in one execute() pass
MaxInst == 2         \* heap slots available for processor instances

\* ------------------------------------------------------- program constants
PayloadCapacity == 256          \* std::bitset<256> payload
DefaultSymbolRate == 9600       \* dsp::demodulate::FM demod { 76800, 9600 * 2 }
baseband_thread_priority == 20  \* NORMALPRIO + 20
rssi_thread_priority == 10      \* NORMALPRIO + 10
main_thread_priority == 0       \* NORMALPRIO, the thread main() becomes
CorrelatorWindow == 2           \* symbols of history the correlator keeps

Threads == {"baseband", "rssi", "main"}

Priority(t) ==
    CASE t = "baseband" -> baseband_thread_priority
      [] t = "rssi"     -> rssi_thread_priority
      [] OTHER          -> main_thread_priority

\* --------------------------------------------------------------- messages
\* BasebandConfiguration.mode: 0 AM, 1 NFM, 2 WFM, 3 FSK; 4 selects nothing.
ValidModes == {0, 1, 2, 3}
InvalidMode == 4
Modes == ValidModes \cup {InvalidMode}

KindOf(mode) ==
    CASE mode = 0 -> "NarrowbandAMAudio"
      [] mode = 1 -> "NarrowbandFMAudio"
      [] mode = 2 -> "WidebandFMAudio"
      [] mode = 3 -> "FSKProcessor"
      [] OTHER    -> "none"

\* The sampling rate the application sends along with each mode.
SamplingRateOf(mode) == IF mode = 3 THEN 2457600 ELSE 3072000

BasebandConfigurationMessages ==
    { [id |-> "BasebandConfiguration",
       configuration |-> [mode |-> m, sampling_rate |-> SamplingRateOf(m)]] : m \in Modes }

FSKConfigurations ==
    { [symbol_rate |-> 4800,  access_code |-> <<1, 0>>, access_code_length |-> 2,
       access_code_tolerance |-> 0, packet_length |-> 2],
      [symbol_rate |-> 19200, access_code |-> <<1, 0>>, access_code_length |-> 2,
       access_code_tolerance |-> 1, packet_length |-> PayloadCapacity + 1] }

FSKConfigurationMessages ==
    { [id |-> "FSKConfiguration", configuration |-> c] : c \in FSKConfigurations }

ShutdownMessage == [id |-> "Shutdown"]

InboundMessages ==
    BasebandConfigurationMessages \cup FSKConfigurationMessages \cup {ShutdownMessage}

NoMessage == [id |-> "none"]

\* static BasebandConfiguration baseband_configuration: zero-initialised.
StartupConfiguration == [mode |-> 0, sampling_rate |-> 0]

\* ------------------------------------------------- processor instances
FreeSlot == [kind |-> "free"]

\* AccessCodeCorrelator: a shift register of the last CorrelatorWindow
\* symbols, compared over the configured length with the access code.
CorrelatorInit ==
    [code |-> <<>>, length |-> 0, tolerance |-> 0,
     history |-> [i \in 1..CorrelatorWindow |-> 0]]

RECURSIVE Hamming(_, _)
Hamming(a, b) ==
    IF a = <<>> \/ b = <<>> THEN 0
    ELSE (IF Head(a) = Head(b) THEN 0 ELSE 1) + Hamming(Tail(a), Tail(b))

LastN(s, n) == SubSeq(s, Len(s) - n + 1, Len(s))

CorrelatorConfigure(c, code, length, tolerance) ==
    [c EXCEPT !.code = code, !.length = length, !.tolerance = tolerance]

CorrelatorShift(c, symbol) ==
    [c EXCEPT !.history = Tail(Append(c.history, symbol))]

\* The flag execute() returns once `symbol` is shifted in.
CorrelatorMatch(c) ==
    Hamming(LastN(c.history, c.length), c.code) <= c.tolerance

\* PacketBuilder: Idle / Capturing, a payload and its configured length.
PacketBuilderInit ==
    [state |-> "Idle", payload |-> <<>>, payload_length |-> 0]

PacketBuilderConfigure(pb, new_length) ==
    IF new_length <= PayloadCapacity
    THEN [pb EXCEPT !.payload_length = new_length]
    ELSE pb

\* The packet builder on a symbol that is not a match: <<new state, emitted>>
\* where emitted is <<>> or <<payload, bits_received>> handed to the payload
\* handler.
PacketBuilderCapture(pb, symbol) ==
    IF pb.state = "Idle"
    THEN <<pb, <<>>>>
    ELSE LET appended == IF Len(pb.payload) < pb.payload_length
                         THEN Append(pb.payload, symbol)
                         ELSE pb.payload
         IN  IF Len(appended) = pb.payload_length
             THEN <<[pb EXCEPT !.state = "Idle", !.payload = <<>>],
                    <<appended, Len(appended)>>>>
             ELSE <<[pb EXCEPT !.payload = appended], <<>>>>

\* A packet builder that keeps the symbol that completed the access code as
\* the first payload bit.
PacketBuilderExecute_StoreTrigger(pb, symbol, access_code_found) ==
    IF access_code_found
    THEN <<[pb EXCEPT !.state = "Capturing", !.payload = <<symbol>>], <<>>>>
    ELSE PacketBuilderCapture(pb, symbol)

\* One symbol through the packet builder: a match (re)starts the capture
\* with an empty payload, any other symbol goes to the capture.
PacketBuilderExecute(pb, symbol, access_code_found) ==
    IF access_code_found
    THEN <<[pb EXCEPT !.state = "Capturing", !.payload = <<>>], <<>>>>
    ELSE PacketBuilderCapture(pb, symbol)

\* A freshly constructed instance of `kind` (member initialisers).
NewInstance(kind) ==
    IF kind = "FSKProcessor"
    THEN [kind |-> kind,
          demod |-> 2 * DefaultSymbolRate,
          clock_recovery |-> DefaultSymbolRate,
          access_code_correlator |-> CorrelatorInit,
          packet_builder |-> PacketBuilderInit]
    ELSE [kind |-> kind]

InstanceIds == 1..MaxInst

\* operator new: the lowest free slot, 0 when the heap is exhausted.
Allocate(h) ==
    IF \E i \in InstanceIds : h[i] = FreeSlot
    THEN CHOOSE i \in InstanceIds :
            h[i] = FreeSlot /\ \A j \in InstanceIds : h[j] = FreeSlot => i <= j
    ELSE 0

\* What a new-expression can do: construct the object ("ok"); under memory
\* pressure yield no object, so that no constructor runs ("null"); or, being
\* the throwing form with no try block around it, not return at all
\* ("terminate": std::bad_alloc reaches no handler, or the runtime aborts).
NewOutcomes == {"ok", "null", "terminate"}

OperatorNew(h, outcome) == IF outcome = "ok" THEN Allocate(h) ELSE 0

VARIABLES
    heap,                    \* processor instances: slot -> instance or FreeSlot
    baseband_processor,      \* the global pointer: a slot, or 0 for nullptr
    baseband_configuration,  \* the global stored configuration
    message_map,             \* registered handlers: message kind -> captured this
    registration_error,      \* a handler was registered for a registered kind
    is_running,              \* EventDispatcher::is_running
    baseband_queue,          \* shared_memory.baseband_queue (inbound)
    signal_due,              \* the application pushed and has not yet signalled
    sent,                    \* messages the application has pushed so far
    events_pending,          \* event flags pending on the dispatcher thread
    events,                  \* dispatch()'s argument: the flags wait() returned
    wake_queued,             \* messages that were queued at the last wake
    wake_pending,            \* those of them not yet popped
    main_pc,                 \* position of the dispatcher thread
    message,                 \* the message popped by handle_baseband_queue
    old_p,                   \* the handler's local old_p
    new_p,                   \* the result of the new-expression, before assignment
    handler_this,            \* the this captured by the FSKConfiguration handler
    bb_pc,                   \* position of the baseband thread
    bb_this,                 \* the instance execute() was called on
    bb_rate,                 \* buffer.sampling_rate of the current pass
    bb_symbols,              \* symbols left in the current pass
    bb_message,              \* the message the baseband thread is pushing
    bb_discarded,            \* payload bits the last symbol's match discarded
    rssi_pc,                 \* position of the RSSI thread
    dma_enabled,             \* baseband::dma::enable / disable
    rssi_started,            \* rf::rssi::start / stop
    dma_irq_enabled,         \* nvicEnableVector / nvicDisableVector(DMA_IRQn)
    m0_irq_enabled,          \* m0apptxevent_interrupt_enable / disable
    halted                   \* chSysDisable() has run

vars == << heap, baseband_processor, baseband_configuration, message_map,
           registration_error, is_running, baseband_queue, signal_due, sent,
           events_pending, events, wake_queued, wake_pending, main_pc, message,
           old_p, new_p, handler_this, bb_pc, bb_this, bb_rate, bb_symbols,
           bb_message, bb_discarded, rssi_pc, dma_enabled, rssi_started, dma_irq_enabled,
           m0_irq_enabled, halted >>

sharedVars == << heap, baseband_processor, baseband_configuration, message_map,
                 registration_error, is_running >>
mainVars == << events, wake_queued, wake_pending, main_pc, message, old_p, new_p,
              handler_this >>
bbVars == << bb_pc, bb_this, bb_rate, bb_symbols, bb_message, bb_discarded >>
hwVars == << dma_enabled, rssi_started, dma_irq_enabled, m0_irq_enabled, halted >>

\* The state when main() calls event_dispatcher.run().
Init ==
    /\ heap = [i \in InstanceIds |-> FreeSlot]
    /\ baseband_processor = 0
    /\ baseband_configuration = StartupConfiguration
    /\ message_map = [k \in {"BasebandConfiguration", "Shutdown"} |-> 0]
    /\ registration_error = FALSE
    /\ is_running = TRUE
    /\ baseband_queue = <<>>
    /\ signal_due = FALSE
    /\ sent = 0
    /\ events_pending = {}
    /\ events = {}
    /\ wake_queued = 0
    /\ wake_pending = 0
    /\ main_pc = "run"
    /\ message = NoMessage
    /\ old_p = 0
    /\ new_p = 0
    /\ handler_this = 0
    /\ bb_pc = "wait"
    /\ bb_this = 0
    /\ bb_rate = 0
    /\ bb_symbols = 0
    /\ bb_message = NoMessage
    /\ bb_discarded = 0
    /\ rssi_pc = "wait"
    /\ dma_enabled = FALSE
    /\ rssi_started = FALSE
    /\ dma_irq_enabled = TRUE
    /\ m0_irq_enabled = TRUE
    /\ halted = FALSE

\* ----------------------------------------------------------- scheduling
\* A thread is ready unless it is blocked waiting for its next buffer.
Ready(t) ==
    CASE t = "baseband" -> bb_pc # "wait"
      [] t = "rssi"     -> rssi_pc # "wait"
      [] OTHER          -> TRUE

\* Round-robin scheduling that ignores the priorities.
CanRun_NoPriority(t) == IF halted THEN t = "main" ELSE TRUE

\* Static priorities on one core: t runs only while every thread of higher
\* priority is blocked; after chSysDisable() only the caller runs on.
CanRun(t) ==
    IF halted THEN t = "main"
    ELSE \A u \in Threads : Priority(u) > Priority(t) => ~Ready(u)

\* A registration that is lost.
RegisterHandler_Drop(map, kind, this) == map

\* MessageHandlerMap::register_handler / unregister_handler.
RegisterHandler(map, kind, this) ==
    [k \in DOMAIN map \cup {kind} |-> IF k = kind THEN this ELSE map[k]]

UnregisterHandler(map, kind) == [k \in DOMAIN map \ {kind} |-> map[k]]

\* ---------------------------------------------------- application core
\* The application pushes a message to baseband_queue ...
AppPush ==
    /\ Len(baseband_queue) < MaxQueue /\ sent < MaxMessages
    /\ sent' = sent + 1
    /\ \E m \in InboundMessages : baseband_queue' = Append(baseband_queue, m)
    /\ signal_due' = TRUE
    /\ UNCHANGED << sharedVars, mainVars, bbVars, hwVars, events_pending, rssi_pc >>

\* ... and then raises the M0APPTXEVENT interrupt, whose handler flags
\* EVT_MASK_BASEBAND on the dispatcher thread.
AppSignal ==
    /\ signal_due /\ m0_irq_enabled /\ ~halted
    /\ signal_due' = FALSE
    /\ events_pending' = events_pending \cup {"BASEBAND"}
    /\ UNCHANGED << sharedVars, mainVars, bbVars, hwVars, baseband_queue, sent,
                    rssi_pc >>

\* ------------------------------------------------------ baseband thread
\* A payload handler that reports the capacity of the payload, not the count.
payload_handler_Capacity(payload, bits_received) ==
    [id |-> "FSKPacket", payload |-> payload, bits_received |-> PayloadCapacity]

\* FSKProcessor::payload_handler: the message it builds.
payload_handler(payload, bits_received) ==
    [id |-> "FSKPacket", payload |-> payload, bits_received |-> bits_received]

\* The baseband DMA completes a buffer and wait_for_rx_buffer() returns; the
\* buffer takes the stored sampling rate; if( baseband_processor ) selects
\* the instance execute() is called on.
BBWait ==
    /\ CanRun("baseband") /\ bb_pc = "wait"
    /\ dma_enabled /\ dma_irq_enabled
    /\ bb_rate' = baseband_configuration.sampling_rate
    /\ bb_this' = baseband_processor
    /\ bb_pc' = IF baseband_processor # 0 THEN "execute" ELSE "stats"
    /\ UNCHANGED << sharedVars, mainVars, hwVars, bb_symbols, bb_message, bb_discarded,
                    baseband_queue, signal_due, sent, events_pending, rssi_pc >>

\* execute(): decimate, filter, feed the channel spectrum (which may flag
\* EVT_MASK_SPECTRUM), demodulate; the FSK variant then has the symbols of
\* this buffer to recover, the audio variants are done.
BBExecute ==
    /\ CanRun("baseband") /\ bb_pc = "execute"
    /\ \E spectrum \in BOOLEAN :
         events_pending' = IF spectrum THEN events_pending \cup {"SPECTRUM"}
                           ELSE events_pending
    /\ IF heap[bb_this].kind = "FSKProcessor"
       THEN /\ \E n \in 0..MaxSymbols : bb_symbols' = n
            /\ bb_pc' = "symbol"
       ELSE /\ bb_symbols' = 0
            /\ bb_pc' = "stats"
    /\ UNCHANGED << sharedVars, mainVars, hwVars, bb_this, bb_rate, bb_message,
                    bb_discarded, baseband_queue, signal_due, sent, rssi_pc >>

\* One turn of the clock-recovery loop: symbol_handler_fn and consume_symbol.
BBSymbol ==
    /\ CanRun("baseband") /\ bb_pc = "symbol"
    /\ IF bb_symbols = 0 \/ heap[bb_this].kind # "FSKProcessor"
       THEN /\ bb_pc' = "stats"
            /\ bb_discarded' = 0
            /\ UNCHANGED << heap, bb_symbols, bb_message >>
       ELSE \E symbol \in {0, 1} :
              LET correlator == CorrelatorShift(heap[bb_this].access_code_correlator, symbol)
                  access_code_found == CorrelatorMatch(correlator)
                  built == PacketBuilderExecute(heap[bb_this].packet_builder,
                                                symbol, access_code_found)
              IN  /\ heap' = [heap EXCEPT ![bb_this].access_code_correlator = correlator,
                                          ![bb_this].packet_builder = built[1]]
                  /\ bb_symbols' = bb_symbols - 1
                  /\ bb_discarded' = IF access_code_found
                                     THEN Len(heap[bb_this].packet_builder.payload)
                                     ELSE 0
                  /\ IF built[2] # <<>>
                     THEN /\ bb_message' = payload_handler(built[2][1], built[2][2])
                          /\ bb_pc' = "push_packet"
                     ELSE /\ bb_message' = bb_message
                          /\ bb_pc' = "symbol"
    /\ UNCHANGED << baseband_processor, baseband_configuration, message_map,
                    registration_error, is_running, mainVars, hwVars, bb_this, bb_rate,
                    baseband_queue, signal_due, sent, events_pending, rssi_pc >>

\* shared_memory.application_queue.push(message) of payload_handler.
BBPushPacket ==
    /\ CanRun("baseband") /\ bb_pc = "push_packet"
    /\ bb_message' = NoMessage
    /\ bb_pc' = "symbol"
    /\ UNCHANGED << sharedVars, mainVars, hwVars, bb_this, bb_rate, bb_symbols,
                    bb_discarded, baseband_queue, signal_due, sent, events_pending, rssi_pc >>

\* stats.process(): at the end of an epoch the statistics are pushed.
BBStats ==
    /\ CanRun("baseband") /\ bb_pc = "stats"
    /\ \E emit \in BOOLEAN :
         IF emit
         THEN bb_message' = [id |-> "BasebandStatistics"] /\ bb_pc' = "push_stats"
         ELSE bb_message' = NoMessage /\ bb_pc' = "wait"
    /\ bb_this' = 0 /\ bb_rate' = 0 /\ bb_symbols' = 0 /\ bb_discarded' = 0
    /\ UNCHANGED << sharedVars, mainVars, hwVars,
                    baseband_queue, signal_due, sent, events_pending, rssi_pc >>

\* shared_memory.application_queue.push(message) of the statistics.
BBPushStats ==
    /\ CanRun("baseband") /\ bb_pc = "push_stats"
    /\ bb_message' = NoMessage
    /\ bb_pc' = "wait"
    /\ UNCHANGED << sharedVars, mainVars, hwVars, bb_this, bb_rate, bb_symbols,
                    bb_discarded, baseband_queue, signal_due, sent, events_pending, rssi_pc >>

\* ---------------------------------------------------------- RSSI thread
\* The RSSI DMA completes a buffer and wait_for_buffer() returns;
\* stats.process() may have statistics to push.
RSSIWait ==
    /\ CanRun("rssi") /\ rssi_pc = "wait"
    /\ rssi_started /\ dma_irq_enabled
    /\ rssi_pc' = "push"
    /\ UNCHANGED << sharedVars, mainVars, bbVars, hwVars, baseband_queue,
                    signal_due, sent, events_pending >>

\* shared_memory.application_queue.push(message) of the statistics.
RSSIPush ==
    /\ CanRun("rssi") /\ rssi_pc = "push"
    /\ rssi_pc' = "wait"
    /\ UNCHANGED << sharedVars, mainVars, bbVars, hwVars, baseband_queue,
                    signal_due, sent, events_pending >>

\* ---------------------------------------------------- dispatcher thread
mainFrame == << bbVars, signal_due, sent, rssi_pc >>

\* A main() that pushes the acknowledgement as soon as run() returns.
RunNext_SkipTeardown(running) == IF running THEN "wait" ELSE "push_ack"

\* A loop that never tests is_running.
RunNext_Forever(running) == "wait"

\* while(is_running): where run() goes next.
RunNext(running) == IF running THEN "wait" ELSE "shutdown_dma"

\* A dispatch() that never looks at the baseband queue.
DispatchFirst_Never(ev) == "spectrum"

\* A dispatch() that tests the spectrum event first and then skips the
\* baseband queue.
DispatchFirst_SpectrumOnly(ev) ==
    IF "BASEBAND" \in ev /\ "SPECTRUM" \notin ev THEN "drain" ELSE "spectrum"

\* dispatch(): the baseband queue comes first when its event is flagged.
DispatchFirst(ev) == IF "BASEBAND" \in ev THEN "drain" ELSE "spectrum"

\* A destructor that leaves the handler registered.
FSKProcessorDestructor_NoUnregister(map) == map

\* ~FSKProcessor()
FSKProcessorDestructor(map) == UnregisterHandler(map, "FSKConfiguration")

\* delete old_p: the destructor of the instance's class, then the slot is freed.
DestructorOf(map, h, p) ==
    IF p # 0 /\ h[p].kind = "FSKProcessor" THEN FSKProcessorDestructor(map) ELSE map

\* A handler that drops old_p without deleting it.
OperatorDelete_Leak(h, p) == h

OperatorDelete(h, p) == IF p = 0 THEN h ELSE [h EXCEPT ![p] = FreeSlot]

Run ==
    /\ CanRun("main") /\ main_pc = "run"
    /\ main_pc' = RunNext(is_running)
    /\ UNCHANGED << sharedVars, hwVars, mainFrame, events, wake_queued, wake_pending, message,
                    old_p, new_p, handler_this, baseband_queue, events_pending >>

\* chEvtWaitAny(ALL_EVENTS) blocks until a flag is pending and takes them
\* all; dispatch(events) then starts with the first flag it tests.
Wait ==
    /\ CanRun("main") /\ main_pc = "wait" /\ events_pending # {}
    /\ events' = events_pending
    /\ events_pending' = {}
    /\ wake_queued' = Len(baseband_queue)
    /\ wake_pending' = Len(baseband_queue)
    /\ main_pc' = DispatchFirst(events_pending)
    /\ UNCHANGED << sharedVars, hwVars, mainFrame, message, old_p, new_p,
                    handler_this, baseband_queue >>

\* handle_baseband_queue(): the loop test and the pop.
HandleBasebandQueue ==
    /\ CanRun("main") /\ main_pc = "drain"
    /\ IF baseband_queue = <<>>
       THEN /\ main_pc' = "spectrum"
            /\ UNCHANGED << baseband_queue, message, wake_pending >>
       ELSE /\ message' = Head(baseband_queue)
            /\ baseband_queue' = Tail(baseband_queue)
            /\ wake_pending' = IF wake_pending > 0 THEN wake_pending - 1 ELSE 0
            /\ main_pc' = "send"
    /\ UNCHANGED << sharedVars, hwVars, mainFrame, events, wake_queued, old_p,
                    new_p, handler_this, events_pending >>

\* A lookup that finds a handler for every kind.
HandlerOf_Stale(map, id) == id

\* MessageHandlerMap::send: the handler registered for the kind, if any.
HandlerOf(map, id) == IF id \in DOMAIN map THEN id ELSE "none"

\* message_map.send(message): the registered handler is entered, a kind
\* without a handler is dropped.  The Shutdown handler is request_stop();
\* the BasebandConfiguration handler starts with its mode comparison; the
\* FSKConfiguration handler calls configure() on the this it captured.
Send ==
    /\ CanRun("main") /\ main_pc = "send"
    /\ LET handler == HandlerOf(message_map, message.id)
       IN  CASE handler = "none" ->
                   /\ main_pc' = "drain" /\ message' = NoMessage
                   /\ UNCHANGED << is_running, handler_this >>
              [] handler = "Shutdown" ->
                   /\ is_running' = FALSE
                   /\ main_pc' = "drain" /\ message' = NoMessage
                   /\ UNCHANGED handler_this
              [] handler = "BasebandConfiguration" ->
                   /\ main_pc' = IF message.configuration.mode # baseband_configuration.mode
                                 THEN "bc_null" ELSE "bc_store"
                   /\ UNCHANGED << is_running, message, handler_this >>
              [] OTHER ->
                   /\ handler_this' = IF message.id \in DOMAIN message_map
                                      THEN message_map[message.id] ELSE 0
                   /\ main_pc' = "cfg_demod"
                   /\ UNCHANGED << is_running, message >>
    /\ UNCHANGED << heap, baseband_processor, baseband_configuration, message_map,
                    registration_error, hwVars, mainFrame, events, wake_queued, wake_pending,
                    old_p, new_p, baseband_queue, events_pending >>

\* A handler that leaves the global pointer on the old processor.
Detached_Keep(p) == p

\* baseband_processor = nullptr: the value the pointer has during the switch.
Detached(p) == 0

\* auto old_p = baseband_processor; baseband_processor = nullptr;
BCNull ==
    /\ CanRun("main") /\ main_pc = "bc_null"
    /\ old_p' = baseband_processor
    /\ baseband_processor' = Detached(baseband_processor)
    /\ main_pc' = "bc_delete"
    /\ UNCHANGED << heap, baseband_configuration, message_map, registration_error,
                    is_running, hwVars, mainFrame, events, wake_queued, wake_pending, message,
                    new_p, handler_this, baseband_queue, events_pending >>

\* delete old_p;
BCDelete ==
    /\ CanRun("main") /\ main_pc = "bc_delete"
    /\ message_map' = DestructorOf(message_map, heap, old_p)
    /\ heap' = OperatorDelete(heap, old_p)
    /\ main_pc' = "bc_new"
    /\ UNCHANGED << baseband_processor, baseband_configuration, registration_error,
                    is_running, hwVars, mainFrame, events, wake_queued, wake_pending, message,
                    old_p, new_p, handler_this, baseband_queue, events_pending >>

\* switch(mode): the new-expression of the selected case (allocation, which
\* may fail, and constructor; FSKProcessor's constructor registers its
\* handler); the default case constructs nothing.  A new-expression that
\* does not return ends the dispatcher thread where it stands; whether the
\* rest of the system is halted with it is left open.
BCNew ==
    /\ CanRun("main") /\ main_pc = "bc_new"
    /\ \E outcome \in NewOutcomes :
       LET kind == KindOf(message.configuration.mode)
           p == OperatorNew(heap, outcome)
       IN  IF kind = "none"
           THEN /\ new_p' = 0
                /\ main_pc' = "bc_enable"
                /\ UNCHANGED << heap, message_map, registration_error, halted >>
           ELSE IF outcome = "terminate"
           THEN /\ main_pc' = "terminated"
                /\ \E h \in BOOLEAN : halted' = h
                /\ UNCHANGED << heap, message_map, registration_error, new_p >>
           ELSE IF p = 0
           THEN /\ new_p' = 0
                /\ main_pc' = "bc_assign"
                /\ UNCHANGED << heap, message_map, registration_error, halted >>
           ELSE /\ heap' = [heap EXCEPT ![p] = NewInstance(kind)]
                /\ new_p' = p
                /\ main_pc' = "bc_assign"
                /\ halted' = halted
                /\ IF kind = "FSKProcessor"
                   THEN /\ message_map' = RegisterHandler(message_map, "FSKConfiguration", p)
                        /\ registration_error' =
                              (registration_error \/ "FSKConfiguration" \in DOMAIN message_map)
                   ELSE UNCHANGED << message_map, registration_error >>
    /\ UNCHANGED << baseband_processor, baseband_configuration, is_running,
                    dma_enabled, rssi_started, dma_irq_enabled, m0_irq_enabled,
                    mainFrame, events, wake_queued, wake_pending, message, old_p,
                    handler_this, baseband_queue, events_pending >>

\* baseband_processor = <the new instance>;
BCAssign ==
    /\ CanRun("main") /\ main_pc = "bc_assign"
    /\ baseband_processor' = new_p
    /\ main_pc' = "bc_enable"
    /\ UNCHANGED << heap, baseband_configuration, message_map, registration_error,
                    is_running, hwVars, mainFrame, events, wake_queued, wake_pending, message,
                    old_p, new_p, handler_this, baseband_queue, events_pending >>

\* if( baseband_processor )
ProcessorPresent(p) == p # 0

\* if( baseband_processor ) { rssi::start(); dma::enable(); }
\* else { dma::disable(); rssi::stop(); }
BCEnable ==
    /\ CanRun("main") /\ main_pc = "bc_enable"
    /\ dma_enabled' = ProcessorPresent(baseband_processor)
    /\ rssi_started' = ProcessorPresent(baseband_processor)
    /\ main_pc' = "bc_store"
    /\ UNCHANGED << sharedVars, dma_irq_enabled, m0_irq_enabled, halted, mainFrame,
                    events, wake_queued, wake_pending, message, old_p, new_p, handler_this,
                    baseband_queue, events_pending >>

\* baseband_configuration = message->configuration;
BCStore ==
    /\ CanRun("main") /\ main_pc = "bc_store"
    /\ baseband_configuration' = message.configuration
    /\ main_pc' = "drain"
    /\ message' = NoMessage /\ old_p' = 0 /\ new_p' = 0
    /\ UNCHANGED << heap, baseband_processor, message_map, registration_error,
                    is_running, hwVars, mainFrame, events, wake_queued, wake_pending,
                    handler_this, baseband_queue, events_pending >>

\* FSKProcessor::configure, one member at a time.
Configured(h, this, member, value) ==
    IF this # 0 /\ h[this].kind = "FSKProcessor"
    THEN [h EXCEPT ![this][member] = value]
    ELSE h

CfgDemod ==
    /\ CanRun("main") /\ main_pc = "cfg_demod"
    /\ heap' = Configured(heap, handler_this, "demod",
                          2 * message.configuration.symbol_rate)
    /\ main_pc' = "cfg_clock"
    /\ UNCHANGED << baseband_processor, baseband_configuration, message_map,
                    registration_error, is_running, hwVars, mainFrame, events,
                    wake_queued, wake_pending, message, old_p, new_p, handler_this,
                    baseband_queue, events_pending >>

CfgClock ==
    /\ CanRun("main") /\ main_pc = "cfg_clock"
    /\ heap' = Configured(heap, handler_this, "clock_recovery",
                          message.configuration.symbol_rate)
    /\ main_pc' = "cfg_correlator"
    /\ UNCHANGED << baseband_processor, baseband_configuration, message_map,
                    registration_error, is_running, hwVars, mainFrame, events,
                    wake_queued, wake_pending, message, old_p, new_p, handler_this,
                    baseband_queue, events_pending >>

CfgCorrelator ==
    /\ CanRun("main") /\ main_pc = "cfg_correlator"
    /\ heap' = IF handler_this # 0 /\ heap[handler_this].kind = "FSKProcessor"
               THEN Configured(heap, handler_this, "access_code_correlator",
                       CorrelatorConfigure(heap[handler_this].access_code_correlator,
                                           message.configuration.access_code,
                                           message.configuration.access_code_length,
                                           message.configuration.access_code_tolerance))
               ELSE heap
    /\ main_pc' = "cfg_packet"
    /\ UNCHANGED << baseband_processor, baseband_configuration, message_map,
                    registration_error, is_running, hwVars, mainFrame, events,
                    wake_queued, wake_pending, message, old_p, new_p, handler_this,
                    baseband_queue, events_pending >>

CfgPacketBuilder ==
    /\ CanRun("main") /\ main_pc = "cfg_packet"
    /\ heap' = IF handler_this # 0 /\ heap[handler_this].kind = "FSKProcessor"
               THEN Configured(heap, handler_this, "packet_builder",
                       PacketBuilderConfigure(heap[handler_this].packet_builder,
                                              message.configuration.packet_length))
               ELSE heap
    /\ main_pc' = "drain"
    /\ message' = NoMessage /\ handler_this' = 0
    /\ UNCHANGED << baseband_processor, baseband_configuration, message_map,
                    registration_error, is_running, hwVars, mainFrame, events,
                    wake_queued, wake_pending, old_p, new_p, baseband_queue, events_pending >>

\* if( events & EVT_MASK_SPECTRUM ) handle_spectrum(); without the flag
\* dispatch() returns to the loop test of run().
Spectrum ==
    /\ CanRun("main") /\ main_pc = "spectrum"
    /\ IF "SPECTRUM" \in events
       THEN main_pc' = "handle_spectrum" /\ UNCHANGED << events, wake_queued, wake_pending >>
       ELSE /\ main_pc' = RunNext(is_running)
            /\ events' = {} /\ wake_queued' = 0 /\ wake_pending' = 0
    /\ UNCHANGED << sharedVars, hwVars, mainFrame, message,
                    old_p, new_p, handler_this, baseband_queue, events_pending >>

\* handle_spectrum(): update_spectrum() on the active processor, if any;
\* dispatch() returns to the loop test of run().
HandleSpectrum ==
    /\ CanRun("main") /\ main_pc = "handle_spectrum"
    /\ main_pc' = RunNext(is_running)
    /\ events' = {} /\ wake_queued' = 0 /\ wake_pending' = 0
    /\ UNCHANGED << sharedVars, hwVars, mainFrame, message,
                    old_p, new_p, handler_this, baseband_queue, events_pending >>

\* shutdown(): nvicDisableVector(DMA_IRQn);
ShutdownDMA ==
    /\ CanRun("main") /\ main_pc = "shutdown_dma"
    /\ dma_irq_enabled' = FALSE
    /\ main_pc' = "shutdown_m0"
    /\ UNCHANGED << sharedVars, dma_enabled, rssi_started, m0_irq_enabled, halted,
                    mainFrame, events, wake_queued, wake_pending, message, old_p, new_p,
                    handler_this, baseband_queue, events_pending >>

\* m0apptxevent_interrupt_disable();
ShutdownM0 ==
    /\ CanRun("main") /\ main_pc = "shutdown_m0"
    /\ m0_irq_enabled' = FALSE
    /\ main_pc' = "shutdown_sys"
    /\ UNCHANGED << sharedVars, dma_enabled, rssi_started, dma_irq_enabled, halted,
                    mainFrame, events, wake_queued, wake_pending, message, old_p, new_p,
                    handler_this, baseband_queue, events_pending >>

\* chSysDisable(); systick_stop();
ShutdownSys ==
    /\ CanRun("main") /\ main_pc = "shutdown_sys"
    /\ halted' = TRUE
    /\ main_pc' = "push_ack"
    /\ UNCHANGED << sharedVars, dma_enabled, rssi_started, dma_irq_enabled,
                    m0_irq_enabled, mainFrame, events, wake_queued, wake_pending, message, old_p,
                    new_p, handler_this, baseband_queue, events_pending >>

\* shared_memory.application_queue.push(shutdown_message); return 0;
PushAck ==
    /\ CanRun("main") /\ main_pc = "push_ack"
    /\ main_pc' = "done"
    /\ UNCHANGED << sharedVars, hwVars, bbVars, events, wake_queued, wake_pending, message, old_p,
                    new_p, handler_this, baseband_queue, events_pending, signal_due, sent,
                    rssi_pc >>

\* ------------------------------------------------------- specification
Next ==
    \/ AppPush \/ AppSignal
    \/ BBWait \/ BBExecute \/ BBSymbol \/ BBPushPacket
    \/ BBStats \/ BBPushStats
    \/ RSSIWait \/ RSSIPush
    \/ Run \/ Wait \/ HandleBasebandQueue \/ Send
    \/ BCNull \/ BCDelete \/ BCNew \/ BCAssign \/ BCEnable \/ BCStore
    \/ CfgDemod \/ CfgClock \/ CfgCorrelator \/ CfgPacketBuilder
    \/ Spectrum \/ HandleSpectrum
    \/ ShutdownDMA \/ ShutdownM0 \/ ShutdownSys \/ PushAck

Spec == Init /\ [][Next]_vars

\* The steps of each thread once it is running.  A pass takes less than a
\* buffer period, so the two worker threads finish what they started and
\* the dispatcher thread, though preempted, is not starved: it takes a step
\* if it is ready again and again.  Nothing is assumed of the application
\* core or of the arrival of buffers.
BasebandStep == BBExecute \/ BBSymbol \/ BBPushPacket \/ BBStats \/ BBPushStats

MainStep ==
    \/ Run \/ Wait \/ HandleBasebandQueue \/ Send
    \/ BCNull \/ BCDelete \/ BCNew \/ BCAssign \/ BCEnable \/ BCStore
    \/ CfgDemod \/ CfgClock \/ CfgCorrelator \/ CfgPacketBuilder
    \/ Spectrum \/ HandleSpectrum
    \/ ShutdownDMA \/ ShutdownM0 \/ ShutdownSys \/ PushAck

Fairness ==
    /\ WF_vars(BasebandStep)
    /\ SF_vars(RSSIPush)
    /\ SF_vars(MainStep)

LiveSpec == Spec /\ Fairness

\* ------------------------------------------------------------ properties
LiveInstances == { i \in InstanceIds : heap[i] # FreeSlot }

InBasebandConfigurationHandler ==
    main_pc \in {"bc_null", "bc_delete", "bc_new", "bc_assign", "bc_enable", "bc_store"}

InConfigure ==
    main_pc \in {"cfg_demod", "cfg_clock", "cfg_correlator", "cfg_packet"}

InPush(t) ==
    CASE t = "baseband" -> bb_pc \in {"push_packet", "push_stats"}
      [] t = "rssi"     -> rssi_pc = "push"
      [] OTHER          -> main_pc = "push_ack"

\* The settings FSKProcessor::configure writes, for the instance in slot i.
Settings(h, i) ==
    IF i # 0 /\ h[i].kind = "FSKProcessor"
    THEN << h[i].demod, h[i].clock_recovery, h[i].access_code_correlator.code,
            h[i].access_code_correlator.length, h[i].access_code_correlator.tolerance,
            h[i].packet_builder.payload_length >>
    ELSE << >>

\* C1: on every mode switch the old processor is destroyed and its
\* FSKConfiguration handler removed before the new processor is constructed
\* and registers; no handler is ever registered for a kind already registered.
C1_DestroyBeforeConstruct ==
    /\ ~registration_error
    /\ main_pc = "bc_new" =>
          /\ LiveInstances = {}
          /\ "FSKConfiguration" \notin DOMAIN message_map

\* A switch away from the FSK processor: it is destroyed, its handler is gone
\* and the new processor is constructed.
C1_Witness ==
    /\ main_pc = "bc_assign" /\ old_p # 0 /\ new_p # 0
    /\ baseband_configuration.mode = 3
    /\ "FSKConfiguration" \notin DOMAIN message_map

\* C2 (as stated): exactly one processor instance is live and the global
\* pointer designates it, in every reachable state.
C2_ExactlyOneProcessor ==
    /\ Cardinality(LiveInstances) = 1
    /\ baseband_processor \in LiveInstances

\* C2 (amended): at most one processor instance is live, and the global
\* pointer is null or designates that instance.
C2_AtMostOneProcessor ==
    /\ Cardinality(LiveInstances) <= 1
    /\ baseband_processor = 0 \/ LiveInstances = {baseband_processor}

\* One processor has replaced another.
C2_Witness ==
    /\ main_pc = "bc_enable" /\ old_p # 0
    /\ baseband_processor # 0 /\ LiveInstances = {baseband_processor}

\* C3: once a BasebandConfiguration message with a valid mode m has run
\* through its handler, the active processor is the variant m selects.
C3_ModeSelectsVariant ==
    (main_pc = "bc_store" /\ message.configuration.mode \in ValidModes) =>
        /\ baseband_processor # 0
        /\ heap[baseband_processor].kind = KindOf(message.configuration.mode)

\* C4: a BasebandConfiguration message with an invalid mode changes neither
\* the active processor nor the stored configuration.
C4_InvalidModeRejected ==
    [][ ( /\ main_pc \in {"send"} \cup {"bc_null", "bc_delete", "bc_new",
                                        "bc_assign", "bc_enable", "bc_store"}
          /\ message.id = "BasebandConfiguration"
          /\ message.configuration.mode \notin ValidModes )
        => /\ baseband_processor' = baseband_processor
           /\ LiveInstances' = LiveInstances
           /\ baseband_configuration' = baseband_configuration ]_vars

\* C5: configure() with a packet_length above the payload capacity changes
\* none of the demodulator, clock-recovery, correlator or packet-builder
\* settings.
C5_OversizePacketRejected ==
    [][ ( /\ InConfigure
          /\ message.configuration.packet_length > PayloadCapacity )
        => Settings(heap', handler_this) = Settings(heap, handler_this) ]_vars

\* C6 (as stated): whatever events woke the dispatcher, update_spectrum is
\* not invoked while a message that was pending at the wake is still queued.
C6_DrainBeforeSpectrum ==
    (main_pc = "handle_spectrum" /\ baseband_processor # 0) => wake_pending = 0

\* C6 (amended): when the events of the wake include the baseband-queue
\* event, every message pending at the wake is dispatched before the
\* spectrum trigger of that wake is handled.
C6_DrainBeforeSpectrumWhenFlagged ==
    (main_pc = "handle_spectrum" /\ "BASEBAND" \in events) => wake_pending = 0

\* A wake with both events and messages pending has reached update_spectrum.
C6_Witness ==
    /\ main_pc = "handle_spectrum" /\ "BASEBAND" \in events
    /\ wake_queued > 0 /\ baseband_processor # 0

\* C7 (as stated): once the Shutdown handler has run, no message is
\* dispatched to a handler and no spectrum update is performed.
C7_NothingAfterShutdown ==
    ~is_running =>
        /\ ~(main_pc = "send" /\ message.id \in DOMAIN message_map)
        /\ ~InBasebandConfigurationHandler /\ ~InConfigure
        /\ ~(main_pc = "handle_spectrum" /\ baseband_processor # 0)

\* C7 (amended): once the Shutdown handler has run the dispatcher never
\* waits for another wake: it finishes the dispatch in progress (the rest of
\* the queue and that wake's spectrum trigger) and run() returns.
C7_NoWaitAfterShutdown ==
    ~is_running => main_pc # "wait"

\* run() has returned after a Shutdown message.
C7_Witness ==
    ~is_running /\ main_pc = "shutdown_dma"

\* C8: at most one context is pushing to the application queue at a time.
C8_SingleProducer ==
    Cardinality({ t \in Threads : InPush(t) }) <= 1

\* C9: a pass of the baseband thread that has started is never cut off: the
\* system is not halted while a pass is in flight.
C9_NoPassCanceled ==
    bb_pc # "wait" => ~halted

\* A pass is in flight after the Shutdown handler has run.
C9_Witness ==
    bb_pc = "execute" /\ ~is_running

\* C10: a completed-packet message being pushed carries bits_received equal
\* to the configured packet length, and a push of such a message starts
\* exactly when a capture completes.
C10_PacketPerCapture ==
    /\ [](bb_pc = "push_packet" =>
            /\ bb_message.id = "FSKPacket"
            /\ bb_message.bits_received = heap[bb_this].packet_builder.payload_length
            /\ Len(bb_message.payload) = bb_message.bits_received)
    /\ [][ (\E i \in InstanceIds :
              /\ heap[i].kind = "FSKProcessor" /\ heap'[i].kind = "FSKProcessor"
              /\ heap[i].packet_builder.state = "Capturing"
              /\ heap'[i].packet_builder.state = "Idle")
           <=> (bb_pc # "push_packet" /\ bb_pc' = "push_packet") ]_vars

\* A capture of two bits has completed and its message is being pushed.
C10_Witness ==
    bb_pc = "push_packet" /\ bb_message.bits_received = 2

\* C11: each recovered symbol is shifted once into the correlator and then
\* handed, with the match flag, to the packet builder; a match discards any
\* partial payload and leaves an empty capture that does not hold the symbol
\* that matched; without a match a capture with room stores the symbol.
C11_MatchRestartsCapture ==
    [][ (bb_pc = "symbol" /\ bb_symbols' = bb_symbols - 1) =>
          LET c   == heap[bb_this].access_code_correlator
              c2  == heap'[bb_this].access_code_correlator
              pb  == heap[bb_this].packet_builder
              pb2 == heap'[bb_this].packet_builder
              symbol == c2.history[CorrelatorWindow]
          IN  /\ c2 = CorrelatorShift(c, symbol)
              /\ IF CorrelatorMatch(c2)
                 THEN /\ pb2.state = "Capturing" /\ pb2.payload = <<>>
                      /\ bb_pc' = "symbol"
                 ELSE (pb.state = "Capturing" /\ Len(pb.payload) < pb.payload_length) =>
                         \/ pb2.payload = Append(pb.payload, symbol)
                         \/ /\ bb_pc' = "push_packet"
                            /\ bb_message'.payload = Append(pb.payload, symbol) ]_vars

\* A match arrived in the middle of a capture and discarded a stored bit.
C11_Witness ==
    /\ bb_pc = "symbol" /\ bb_discarded > 0
    /\ heap[bb_this].packet_builder.state = "Capturing"
    /\ heap[bb_this].packet_builder.payload = <<>>

\* C12: dispatching a message whose kind has no registered handler changes
\* no processor, configuration, DMA or dispatcher state and goes on to the
\* next message; an FSKConfiguration message has no handler whenever the
\* active processor is not the FSK variant or there is none.
C12_UnregisteredDropped ==
    /\ []( ( /\ main_pc = "send" /\ message.id = "FSKConfiguration"
             /\ \/ baseband_processor = 0
                \/ heap[baseband_processor].kind # "FSKProcessor" )
           => message.id \notin DOMAIN message_map )
    /\ [][ ( /\ main_pc = "send" /\ main_pc' # main_pc
             /\ message.id \notin DOMAIN message_map )
           => /\ main_pc' = "drain"
              /\ UNCHANGED << heap, baseband_processor, baseband_configuration,
                              message_map, registration_error, is_running,
                              dma_enabled, rssi_started, baseband_queue >> ]_vars

\* An FSKConfiguration message is being dispatched while an audio processor
\* is active and no handler is registered for it.
C12_Witness ==
    /\ main_pc = "send" /\ message.id = "FSKConfiguration"
    /\ message.id \notin DOMAIN message_map
    /\ baseband_processor # 0 /\ heap[baseband_processor].kind # "FSKProcessor"

\* The new-expression of the mode switch in progress did not produce an
\* object: it yielded none, or it did not return.
AllocationFailed ==
    \/ main_pc = "terminated"
    \/ /\ main_pc \in {"bc_assign", "bc_enable", "bc_store"}
       /\ message.configuration.mode \in ValidModes
       /\ message.configuration.mode # baseband_configuration.mode
       /\ new_p = 0

\* C13: when the new-expression of a mode switch fails, the handler ends
\* with no active processor, baseband DMA disabled and RSSI stopped, and the
\* dispatcher goes on with its loop.
C13_AllocationFailsSafe ==
    (main_pc \in {"bc_store", "terminated"} /\ AllocationFailed) =>
        /\ baseband_processor = 0 /\ LiveInstances = {}
        /\ ~dma_enabled /\ ~rssi_started
        /\ main_pc # "terminated" /\ ~halted

\* The baseband thread is inside execute().
InPass == bb_pc \in {"execute", "symbol", "push_packet"}

RatesSelecting(kind) ==
    { m.configuration.sampling_rate :
        m \in { x \in BasebandConfigurationMessages :
                  KindOf(x.configuration.mode) = kind } }

\* C15: the buffer of every execute() pass carries the sampling rate of the
\* configuration that selected the instance the pass runs on.
C15_RateMatchesProcessor ==
    bb_pc = "execute" => bb_rate \in RatesSelecting(heap[bb_this].kind)

\* The dispatcher thread is inside the event loop and in no handler.
BetweenDispatches ==
    main_pc \in {"run", "wait", "drain", "send", "spectrum", "handle_spectrum"}

\* C16: between two dispatches a handler for FSKConfiguration is registered
\* exactly when the active processor is the FSK variant, and it has captured
\* that instance; the BasebandConfiguration and Shutdown handlers are
\* registered in every state.
C16_HandlerFollowsProcessor ==
    /\ {"BasebandConfiguration", "Shutdown"} \subseteq DOMAIN message_map
    /\ BetweenDispatches =>
          /\ ("FSKConfiguration" \in DOMAIN message_map) <=>
                (baseband_processor # 0 /\ heap[baseband_processor].kind = "FSKProcessor")
          /\ "FSKConfiguration" \in DOMAIN message_map =>
                message_map["FSKConfiguration"] = baseband_processor

\* The FSK processor is active between two dispatches, its handler registered.
C16_Witness ==
    /\ main_pc = "drain" /\ "FSKConfiguration" \in DOMAIN message_map
    /\ baseband_processor # 0 /\ heap[baseband_processor].kind = "FSKProcessor"

\* C17: a pass of the FSK processor never runs between two steps of
\* configure() on that processor with only some of the new settings in
\* place: the demodulator, clock recovery and correlator it sees are all
\* reconfigured or none is.
C17_ConfigureAtomic ==
    (InPass /\ InConfigure /\ handler_this # 0 /\ bb_this = handler_this) =>
        LET new == message.configuration
            p == heap[bb_this]
            demodNew == p.demod = 2 * new.symbol_rate
            clockNew == p.clock_recovery = new.symbol_rate
            correlatorNew ==
                /\ p.access_code_correlator.code = new.access_code
                /\ p.access_code_correlator.length = new.access_code_length
                /\ p.access_code_correlator.tolerance = new.access_code_tolerance
        IN  (demodNew <=> clockNew) /\ (clockNew <=> correlatorNew)

\* The dispatcher is in its loop: no Shutdown handled, thread not ended.
DispatcherRunning == is_running /\ main_pc # "terminated"

\* Messages that have been popped and handed to message_map.send.
Dispatched ==
    sent - Len(baseband_queue) - (IF main_pc = "send" THEN 1 ELSE 0)

====
